---- MODULE Spec2Model ----
(***************************************************************************)
(* A model of FastMemory (src/fast_memory.py): the primary store with its  *)
(* TTL index, hot-key ranking, value cache and write buffer, the list and  *)
(* set collections, the secondary indexes, the locks, and the compression  *)
(* codec.                                                                  *)
(*                                                                         *)
(* Spec      one client calling set / get / _cleanup_expired, each call    *)
(*           atomic, with a clock that advances between calls.             *)
(* SpecList  one client calling lpush / rpush.                             *)
(* SpecSet   one client calling sadd / srem.                               *)
(* SpecCodec compress_value applied to a value, then decompress_value to   *)
(*           its result.                                                   *)
(* SpecConc  two threads, each calling set and get on a key of its own,    *)
(*           interleaved statement by statement.                           *)
(* SpecSweep a thread calling set / get with TTLs and a thread calling     *)
(*           _cleanup_expired, interleaved, with the clock.                *)
(* SpecIndex one client, with a secondary index populated by the caller    *)
(*           and searched with search_by_index.                            *)
(* SpecLive  two threads calling set, get, _cleanup_expired, lpush, rpush, *)
(*           sadd and srem under fair scheduling.                          *)
(***************************************************************************)
EXTENDS Integers, Sequences, FiniteSets, TLC

VARIABLES
    storage,        \* self._storage      key -> value
    ttl,            \* self._ttl          key -> expiry time
    value_cache,    \* self._value_cache  key -> value
    hot_keys,       \* self._hot_keys     sorted list of <<key, hits>>
    write_buffer,   \* self._write_buffer deque of <<"set", key, value, ttl>>
    now,            \* what time.time() returns
    op,             \* the call that returned last, with its result
    pre,            \* the store as _cleanup_expired found it
    lastset,        \* key -> the arguments and time of the latest set on it
    nops,           \* calls made so far
    lists,          \* self._lists       key -> deque, head first
    sets,           \* self._sets        key -> OptimizedSet
    cop,            \* the collection call that returned last
    given,          \* key -> the members passed to sadd and not to a later srem
    cval,           \* the value given to compress_value
    cbytes,         \* what compress_value returned
    cout,           \* what decompress_value returned
    cpc,            \* how far the codec round trip has come
    th,             \* thread -> its call in progress, locals and last result
    locks,          \* self._locks       key -> the thread holding the key's RLock
    global_lock,    \* self._global_lock the thread holding it
    indexes,        \* self._indexes    index name -> (value hash -> key)
    reverse_indexes,\* self._reverse_indexes  key -> set of index names
    searched        \* the search_by_index call that returned last

storeVars == <<storage, ttl, value_cache, hot_keys, write_buffer, now>>
obsVars == <<op, pre, lastset, nops>>
collVars == <<lists, sets, cop, given>>
codecVars == <<cval, cbytes, cout, cpc>>
concVars == <<th, locks, global_lock>>
indexVars == <<indexes, reverse_indexes, searched>>
vars == <<storeVars, obsVars, collVars, codecVars, concVars, indexVars>>

----------------------------------------------------------------------------
(* Bounds of the model. *)

\* The clock takes the values 0..MaxTime.
MaxTime == 2
\* At most MaxOps calls of set, get and _cleanup_expired are made.
MaxOps == 4
\* deque(maxlen=1000) in the source.  The model keeps the code's test
\* len(buffer) >= maxlen and the deque's drop-oldest append, with a capacity
\* small enough for the buffer to fill.
maxlen == 3

\* lpush / rpush / sadd / srem are called with at most MaxPush arguments.
MaxPush == 3
\* A push is made while the list stays within MaxListLen elements.
MaxListLen == 3
\* sadd / srem are called while the set's hasher has been fed fewer than
\* MaxFed items.
MaxFed == 3

\* A thread makes at most MaxThreadOps calls.
MaxThreadOps == 3
\* The codec is given byte strings whose serialized size is within MaxSlack
\* of the compression threshold, and ones of at most MaxSlack bytes.
MaxSlack == 8

(* Program constants. *)

\* _is_hot_key: h > 100
HotThreshold == 100
\* compress_value: len(serialized) > 1024
CompressThreshold == 1024
\* compress_value: zlib.compress(serialized, level=1)
CompressLevel == 1

Keys == {"a", "b"}
\* The keys in ascending order: the iteration order of a SortedDict.
KeyOrder == <<"a", "b">>
Values == {"v1", "v2"}
\* get's default argument
None == "None"
\* set is called with ttl 0 or 1; 0 stands for ttl=None (and ttl=0): the code
\* tests "if ttl:" and treats both alike.
TTLs == {0, 1}

----------------------------------------------------------------------------
(* dict helpers *)

Put(f, k, v) == [x \in DOMAIN f \cup {k} |-> IF x = k THEN v ELSE f[x]]

Pop(f, k) == [x \in DOMAIN f \ {k} |-> f[x]]

DictGet(f, k, default) == IF k \in DOMAIN f THEN f[k] ELSE default

EmptyDict == [x \in {} |-> None]

\* "if ttl:" in set and _flush_write_buffer
Truthy(t) == t # 0

----------------------------------------------------------------------------
(* self._hot_keys = SortedList(key=lambda x: (-x[1], x[0])) *)

Rank(k) == CHOOSE i \in 1..Len(KeyOrder) : KeyOrder[i] = k

\* x sorts strictly before y: more hits first, then the smaller key.
HotBefore(x, y) == x[2] > y[2] \/ (x[2] = y[2] /\ Rank(x[1]) < Rank(y[1]))

RemoveAt(s, i) == [j \in 1..(Len(s) - 1) |-> IF j < i THEN s[j] ELSE s[j + 1]]

InsertAt(s, i, x) ==
    [j \in 1..(Len(s) + 1) |-> IF j < i THEN s[j] ELSE IF j = i THEN x ELSE s[j - 1]]

\* SortedList.add: x goes after every element that does not sort after it.
SortedListAdd(s, x) ==
    LET later == {i \in 1..Len(s) : HotBefore(x, s[i])}
        pos == IF later = {} THEN Len(s) + 1
               ELSE CHOOSE i \in later : \A j \in later : i <= j
    IN InsertAt(s, pos, x)

\* _update_hot_keys: the first entry of the key is popped and added again with
\* one more hit; a key with no entry gets (key, 1).
UpdateHotKeys(hk, key) ==
    LET found == {i \in 1..Len(hk) : hk[i][1] = key}
    IN IF found = {} THEN SortedListAdd(hk, <<key, 1>>)
       ELSE LET idx == CHOOSE i \in found : \A j \in found : i <= j
            IN SortedListAdd(RemoveAt(hk, idx), <<key, hk[idx][2] + 1>>)

\* _is_hot_key with the threshold off by one (h > 101)
IsHotKey_Late(hk, key) ==
    \E i \in 1..Len(hk) : hk[i][1] = key /\ hk[i][2] > HotThreshold + 1

\* _is_hot_key
IsHotKey(hk, key) == \E i \in 1..Len(hk) : hk[i][1] = key /\ hk[i][2] > HotThreshold

Hits(hk, key) ==
    IF \E i \in 1..Len(hk) : hk[i][1] = key
    THEN (hk[CHOOSE i \in 1..Len(hk) : hk[i][1] = key])[2]
    ELSE 0

----------------------------------------------------------------------------
(* The store as a value: the dicts that set, get, the flush and the sweep    *)
(* read and write.                                                          *)

Mem == [storage |-> storage, ttl |-> ttl, value_cache |-> value_cache]

\* deque(maxlen).append: a full deque drops its oldest element.
DequeAppend(buf, x) ==
    IF Len(buf) >= maxlen THEN Append(Tail(buf), x) ELSE Append(buf, x)

\* storage[key] = value; if ttl: _ttl[key] = time.time() + ttl
\* (the tail of set, and the body of the flush's loop)
ApplySet(m, key, value, t, time) ==
    [m EXCEPT !.storage = Put(@, key, value),
              !.ttl = IF Truthy(t) THEN Put(@, key, time + t) ELSE @]

\* _flush_write_buffer: the buffered operations are popped from the left and
\* replayed in order, until the buffer is empty.
RECURSIVE FlushWriteBuffer(_, _, _)
FlushWriteBuffer(buf, m, time) ==
    IF buf = <<>> THEN m
    ELSE LET e == Head(buf)
         IN FlushWriteBuffer(Tail(buf),
                IF e[1] = "set" THEN ApplySet(m, e[2], e[3], e[4], time) ELSE m,
                time)

\* _remove_expired_key
RemoveExpiredKey(m, key) ==
    [m EXCEPT !.storage = Pop(@, key),
              !.ttl = Pop(@, key),
              !.value_cache = Pop(@, key)]

\* get: "time.time() > self._ttl[key]"
GetExpired(time, expire_time) == time > expire_time

\* the sweep's test with the comparison turned around
SweepExpired_Flipped(expire_time, current_time) == expire_time >= current_time

\* _cleanup_expired: "expire_time <= current_time"
SweepExpired(expire_time, current_time) == expire_time <= current_time

\* The keys of a dict in SortedDict order (ascending key).
RECURSIVE SortedKeysFrom(_, _)
SortedKeysFrom(f, i) ==
    IF i > Len(KeyOrder) THEN <<>>
    ELSE (IF KeyOrder[i] \in DOMAIN f THEN <<KeyOrder[i]>> ELSE <<>>)
         \o SortedKeysFrom(f, i + 1)

SortedKeys(f) == SortedKeysFrom(f, 1)

\* _cleanup_expired's scan of self._ttl.items(): expired keys are collected
\* until the first key that is not expired, where the loop breaks.
RECURSIVE ExpiredKeys(_, _, _)
ExpiredKeys(keys, tt, current_time) ==
    IF keys = <<>> THEN <<>>
    ELSE IF SweepExpired(tt[Head(keys)], current_time)
         THEN <<Head(keys)>> \o ExpiredKeys(Tail(keys), tt, current_time)
         ELSE <<>>

\* _cleanup_expired's batch removal
RECURSIVE RemoveAll(_, _)
RemoveAll(m, keys) ==
    IF keys = <<>> THEN m ELSE RemoveAll(RemoveExpiredKey(m, Head(keys)), Tail(keys))

CleanupExpired(m, current_time) ==
    RemoveAll(m, ExpiredKeys(SortedKeys(m.ttl), m.ttl, current_time))

----------------------------------------------------------------------------
(* self._indexes = defaultdict(lambda: SortedDict()): index name -> index,   *)
(* an index mapping the hash of a value to a key;                           *)
(* self._reverse_indexes = defaultdict(set): key -> names of the indexes    *)
(* that hold it.                                                            *)

Ix == [indexes |-> indexes, reverse_indexes |-> reverse_indexes]

\* _remove_expired_key, its second half:
\*     for index in self._reverse_indexes.get(key, set()):
\*         self._indexes[index].pop(key, None)
\*     self._reverse_indexes.pop(key, None)
\* The pop is given the key, and the index is keyed by value hashes.
RemoveFromIndexes(x, key) ==
    LET names == DictGet(x.reverse_indexes, key, {})
    IN [indexes |-> [n \in DOMAIN x.indexes \cup names |->
                        IF n \in names
                        THEN Pop(DictGet(x.indexes, n, EmptyDict), key)
                        ELSE x.indexes[n]],
        reverse_indexes |-> Pop(x.reverse_indexes, key)]

RECURSIVE RemoveAllFromIndexes(_, _)
RemoveAllFromIndexes(x, keys) ==
    IF keys = <<>> THEN x
    ELSE RemoveAllFromIndexes(RemoveFromIndexes(x, Head(keys)), Tail(keys))

----------------------------------------------------------------------------
(* What the model records of the calls. *)

\* name, key, val, ttl: the call and its arguments; ret: what it returned;
\* path: the return statement get left by ("cache", "expired", "store");
\* follows: for a get, the value of the set on the same key that returned
\* right before it ("" when the call before was anything else).
Call(name, key, val, t, ret, path, follows) ==
    [name |-> name, key |-> key, val |-> val, ttl |-> t, ret |-> ret,
     path |-> path, follows |-> follows]

NoCall == Call("init", "", "", 0, "", "", "")

Follows(key) == IF op.name = "set" /\ op.key = key THEN op.val ELSE ""

NoPre == [storage |-> EmptyDict, ttl |-> EmptyDict, value_cache |-> EmptyDict]

\* A collection call: its name, key and arguments, the collection as the
\* call found it (old), whether it raised, what it returned if not, and for
\* sadd / srem the members that earlier calls had put in the set (had).
CollCall(name, key, args, old, raised, ret, had) ==
    [name |-> name, key |-> key, args |-> args, old |-> old,
     raised |-> raised, ret |-> ret, had |-> had]

NoCollCall == CollCall("init", "", <<>>, <<>>, FALSE, 0, {})

\* A search_by_index call: its arguments and the set of keys it returned.
Search(name, value, keys) == [name |-> name, value |-> value, keys |-> keys]

NoSearch == Search("", "", {})

Threads == {"t1", "t2"}

\* an RLock nobody holds
Free == ""

\* A thread between calls.  pc: the statement it is at; name, key, value, ttl:
\* the call in progress; cur: the entry the flush popped; idx, hits: what
\* _update_hot_keys found; val: what get read; args: the values or members
\* given to lpush / rpush / sadd / srem; expired_keys: the sweep's list
\* of keys still to remove; late: the keys of that list on which a set has
\* returned since the sweep made the list; calls: calls made; last, ret: the
\* call that returned last and what it returned; lsv: the value of the
\* thread's last set that returned; swept: a key the thread's sweep removed
\* although it was in late ("" if none).
NoThreadCall ==
    [pc |-> "idle", name |-> "", key |-> "", value |-> "", ttl |-> 0,
     cur |-> <<>>, idx |-> 0, hits |-> 0, val |-> "", args |-> <<>>,
     expired_keys |-> <<>>, late |-> {}, calls |-> 0,
     last |-> "", ret |-> "", lsv |-> "", swept |-> ""]

----------------------------------------------------------------------------
(* Spec: one client, atomic calls. *)

\* get("a") called h times on the fresh store leaves ("a", h) in the ranking
\* and nothing else: each call finds no cache entry and no TTL, reads the
\* default, counts a hit, and caches nothing while h <= 100.
WarmHits == {0, HotThreshold - 1}

WarmRanking(h) == IF h = 0 THEN <<>> ELSE <<<<"a", h>>>>

\* no call has been made: nothing is recorded, no collection and no index
\* exists
NothingCalled ==
    /\ op = NoCall
    /\ pre = NoPre
    /\ lastset = EmptyDict
    /\ nops = 0
    /\ lists = EmptyDict
    /\ sets = EmptyDict
    /\ cop = NoCollCall
    /\ given = EmptyDict
    /\ indexes = EmptyDict
    /\ reverse_indexes = EmptyDict
    /\ searched = NoSearch

\* The store as __init__ leaves it, with the ranking hk.
InitWith(hk) ==
    /\ storage = EmptyDict
    /\ ttl = EmptyDict
    /\ value_cache = EmptyDict
    /\ hot_keys = hk
    /\ write_buffer = <<>>
    /\ now = 0
    /\ NothingCalled
\* no codec call is made
IdleCodec ==
    /\ cval = <<>>
    /\ cbytes = <<>>
    /\ cout = <<>>
    /\ cpc = "idle"

\* no thread has called anything, every lock is free
IdleThreads ==
    /\ th = [t \in Threads |-> NoThreadCall]
    /\ locks = [k \in Keys |-> Free]
    /\ global_lock = Free

Init == \E h \in WarmHits : InitWith(WarmRanking(h)) /\ IdleCodec /\ IdleThreads

\* the store right after __init__
InitFresh == InitWith(<<>>) /\ IdleCodec /\ IdleThreads

\* _remove_expired_key's index part, for the keys removed in one step
RemoveIndexed(keys) ==
    LET x == RemoveAllFromIndexes(Ix, keys)
    IN /\ indexes' = x.indexes
       /\ reverse_indexes' = x.reverse_indexes
       /\ UNCHANGED searched

\* set(key, value, ttl)
Set(key, value, t) ==
    /\ nops < MaxOps
    /\ LET buf == DequeAppend(write_buffer, <<"set", key, value, t>>)
           full == Len(buf) >= maxlen
           m1 == IF full THEN FlushWriteBuffer(buf, Mem, now) ELSE Mem
           m2 == ApplySet(m1, key, value, t, now)
       IN /\ write_buffer' = IF full THEN <<>> ELSE buf
          /\ hot_keys' = UpdateHotKeys(hot_keys, key)
          /\ storage' = m2.storage
          /\ ttl' = m2.ttl
          /\ value_cache' = m2.value_cache
    /\ op' = Call("set", key, value, t, "True", "", "")
    /\ lastset' = Put(lastset, key, [val |-> value, ttl |-> t, at |-> now])
    /\ pre' = NoPre
    /\ nops' = nops + 1
    /\ UNCHANGED <<now, collVars, codecVars, concVars, indexVars>>

\* get(key), with the default None
Get(key) ==
    /\ nops < MaxOps
    /\ IF key \in DOMAIN value_cache
       THEN /\ op' = Call("get", key, "", 0, value_cache[key], "cache", Follows(key))
            /\ UNCHANGED <<storage, ttl, value_cache, hot_keys, indexVars>>
       ELSE IF key \in DOMAIN ttl /\ GetExpired(now, ttl[key])
       THEN LET m == RemoveExpiredKey(Mem, key)
            IN /\ storage' = m.storage
               /\ ttl' = m.ttl
               /\ value_cache' = m.value_cache
               /\ RemoveIndexed(<<key>>)
               /\ op' = Call("get", key, "", 0, None, "expired", Follows(key))
               /\ UNCHANGED hot_keys
       ELSE LET value == DictGet(storage, key, None)
                hk == UpdateHotKeys(hot_keys, key)
            IN /\ hot_keys' = hk
               /\ value_cache' = IF IsHotKey(hk, key)
                                 THEN Put(value_cache, key, value)
                                 ELSE value_cache
               /\ op' = Call("get", key, "", 0, value, "store", Follows(key))
               /\ UNCHANGED <<storage, ttl, indexVars>>
    /\ pre' = NoPre
    /\ nops' = nops + 1
    /\ UNCHANGED <<write_buffer, now, lastset, collVars, codecVars, concVars>>

\* _cleanup_expired()
Cleanup ==
    /\ nops < MaxOps
    /\ LET m == CleanupExpired(Mem, now)
       IN /\ storage' = m.storage
          /\ ttl' = m.ttl
          /\ value_cache' = m.value_cache
    /\ RemoveIndexed(ExpiredKeys(SortedKeys(ttl), ttl, now))
    /\ op' = Call("cleanup", "", "", 0, None, "", "")
    /\ pre' = Mem
    /\ nops' = nops + 1
    /\ UNCHANGED <<hot_keys, write_buffer, now, lastset, collVars, codecVars, concVars>>

\* time passes between two calls
Tick ==
    /\ now < MaxTime
    /\ now' = now + 1
    /\ op' = Call("tick", "", "", 0, "", "", "")
    /\ pre' = NoPre
    /\ UNCHANGED <<storage, ttl, value_cache, hot_keys, write_buffer, lastset, nops,
                   collVars, codecVars, concVars, indexVars>>

DoSet == \E key \in Keys, value \in Values, t \in TTLs : Set(key, value, t)

DoGet == \E key \in Keys : Get(key)

Next == DoSet \/ DoGet \/ Cleanup \/ Tick

Spec == Init /\ [][Next]_vars

----------------------------------------------------------------------------
(* Claims checked under Spec. *)

Live(k) == k \in DOMAIN storage /\ ~(k \in DOMAIN ttl /\ GetExpired(now, ttl[k]))

\* C1: set(k, v) followed immediately by get(k), with no time elapsing and no
\* other call in between, returns v.
C1_SetThenGetReturnsValue ==
    (op.name = "get" /\ op.follows # "") => op.ret = op.follows

\* C2: a get(k) issued more than t time units after the latest set(k, v, ttl=t)
\* returns the default, whatever was called in between.
C2_GetAfterTtlReturnsDefault ==
    (/\ op.name = "get"
     /\ op.key \in DOMAIN lastset
     /\ Truthy(lastset[op.key].ttl)
     /\ now > lastset[op.key].at + lastset[op.key].ttl)
    => op.ret = None

\* C3: every key in the Value Cache is in the Primary Store, and its cached
\* value is the store's current value.
C3_CacheAgreesWithStore ==
    \A k \in DOMAIN value_cache : k \in DOMAIN storage /\ value_cache[k] = storage[k]

\* C4: after the sweep run at time T, no key whose expiry was <= T remains in
\* the TTL index or in the store.
C4_SweepRemovesEveryExpiredKey ==
    op.name = "cleanup" =>
        \A k \in DOMAIN pre.ttl :
            pre.ttl[k] <= now => k \notin DOMAIN ttl /\ k \notin DOMAIN storage

SameAt(f, g, k) ==
    /\ k \in DOMAIN f <=> k \in DOMAIN g
    /\ k \in DOMAIN f => f[k] = g[k]

\* C5: the sweep run at time T leaves every key with expiry > T, and every key
\* with no TTL, as it was: its value, its TTL record and its cache entry.
C5_SweepLeavesLiveKeysUnchanged ==
    op.name = "cleanup" =>
        \A k \in Keys :
            (k \notin DOMAIN pre.ttl \/ pre.ttl[k] > now) =>
                /\ SameAt(pre.storage, storage, k)
                /\ SameAt(pre.ttl, ttl, k)
                /\ SameAt(pre.value_cache, value_cache, k)

\* A sweep that removed a key and kept another one whose expiry is still ahead.
C5_Witness ==
    /\ op.name = "cleanup"
    /\ DOMAIN ttl # DOMAIN pre.ttl
    /\ \E k \in DOMAIN ttl : ttl[k] > now /\ k \in DOMAIN storage

----------------------------------------------------------------------------
(* Lists: self._lists = defaultdict(deque) *)

ListValues == {1, 2, 3}

\* The tuples of at most n elements of S: the *values / *members of a call.
Args(S, n) == UNION {[1..k -> S] : k \in 0..n}

\* reversed(values)
Reversed(s) == [i \in 1..Len(s) |-> s[Len(s) + 1 - i]]

\* deque.extendleft(iterable): each element in turn is put at the head.
RECURSIVE ExtendLeft(_, _)
ExtendLeft(dq, it) ==
    IF it = <<>> THEN dq ELSE ExtendLeft(<<Head(it)>> \o dq, Tail(it))

\* deque.extend(iterable)
Extend(dq, it) == dq \o it

\* lpush(key, *values)
Lpush(key, values) ==
    LET old == DictGet(lists, key, <<>>)
        dq == ExtendLeft(old, Reversed(values))
    IN /\ Len(old) + Len(values) <= MaxListLen
       /\ lists' = Put(lists, key, dq)
       /\ cop' = CollCall("lpush", key, values, old, FALSE, Len(dq), {})
       /\ UNCHANGED <<storeVars, obsVars, sets, given, codecVars, concVars, indexVars>>

\* rpush(key, *values)
Rpush(key, values) ==
    LET old == DictGet(lists, key, <<>>)
        dq == Extend(old, values)
    IN /\ Len(old) + Len(values) <= MaxListLen
       /\ lists' = Put(lists, key, dq)
       /\ cop' = CollCall("rpush", key, values, old, FALSE, Len(dq), {})
       /\ UNCHANGED <<storeVars, obsVars, sets, given, codecVars, concVars, indexVars>>

DoLpush == \E key \in Keys, values \in Args(ListValues, MaxPush) : Lpush(key, values)

DoRpush == \E key \in Keys, values \in Args(ListValues, MaxPush) : Rpush(key, values)

NextList == DoLpush \/ DoRpush

SpecList == InitFresh /\ [][NextList]_vars

\* C7: lpush(k, v1, ..., vn) leaves the values at the head in the reverse of
\* the order given, the elements already in the list behind them in their
\* order: lpush(k, 1, 2, 3) on an empty list reads [3, 2, 1] head to tail.
C7_LpushReversesAtHead ==
    cop.name = "lpush" => lists[cop.key] = Reversed(cop.args) \o cop.old

----------------------------------------------------------------------------
(* Sets: self._sets = defaultdict(OptimizedSet)                             *)
(*                                                                         *)
(* An OptimizedSet holds _data, the sorted array of the hashes added, and   *)
(* _hash_func, one xxhash.xxh64() object made in __init__ and shared by     *)
(* every call; fed is the input that hasher has been given so far.          *)

Members == {"x", "y"}

NewOptimizedSet == [data |-> <<>>, fed |-> <<>>]

\* self._hash_func.update(str(item).encode()): the bytes are appended to the
\* hasher's input, and update() returns None.
XxhUpdate(fed, item) == [fed |-> Append(fed, item), returned |-> None]

\* OptimizedSet.add / remove / __contains__ start with
\*     h = self._hash_func.update(str(item).encode()).intdigest()
\* where .intdigest is looked up on what update() returned: on None this raises
\* AttributeError, before _data is read or written.
HashItem(s, item) ==
    LET u == XxhUpdate(s.fed, item)
    IN [set |-> [s EXCEPT !.fed = u.fed], raised |-> u.returned = None]

\* OptimizedSet.add
OptimizedSetAdd(s, item) == HashItem(s, item)

\* OptimizedSet.remove
OptimizedSetRemove(s, item) == HashItem(s, item)

\* "for member in members: optimized_set.add(member)": the loop ends at the
\* first call that raises.
RECURSIVE AddEach(_, _)
AddEach(s, members) ==
    IF members = <<>> THEN [set |-> s, raised |-> FALSE]
    ELSE LET r == OptimizedSetAdd(s, Head(members))
         IN IF r.raised THEN r ELSE AddEach(r.set, Tail(members))

\* "for member in members: optimized_set.remove(member)"
RECURSIVE RemoveEach(_, _)
RemoveEach(s, members) ==
    IF members = <<>> THEN [set |-> s, raised |-> FALSE]
    ELSE LET r == OptimizedSetRemove(s, Head(members))
         IN IF r.raised THEN r ELSE RemoveEach(r.set, Tail(members))

Range(s) == {s[i] : i \in 1..Len(s)}

\* sadd(key, *members): the set is created by the defaultdict, the members are
\* added, and the growth of _data is returned unless an add raised.
Sadd(key, members) ==
    LET old == DictGet(sets, key, NewOptimizedSet)
        r == AddEach(old, members)
    IN /\ Len(old.fed) < MaxFed
       /\ sets' = Put(sets, key, r.set)
       /\ cop' = CollCall("sadd", key, members, old, r.raised,
                          IF r.raised THEN 0 ELSE Len(r.set.data) - Len(old.data),
                          DictGet(given, key, {}))
       /\ given' = Put(given, key, DictGet(given, key, {}) \cup Range(members))
       /\ UNCHANGED <<storeVars, obsVars, lists, codecVars, concVars, indexVars>>

\* srem(key, *members)
Srem(key, members) ==
    LET old == DictGet(sets, key, NewOptimizedSet)
        r == RemoveEach(old, members)
    IN /\ Len(old.fed) < MaxFed
       /\ sets' = Put(sets, key, r.set)
       /\ cop' = CollCall("srem", key, members, old, r.raised,
                          IF r.raised THEN 0 ELSE Len(old.data) - Len(r.set.data),
                          DictGet(given, key, {}))
       /\ given' = Put(given, key, DictGet(given, key, {}) \ Range(members))
       /\ UNCHANGED <<storeVars, obsVars, lists, codecVars, concVars, indexVars>>

DoSadd == \E key \in Keys, members \in Args(Members, MaxPush) : Sadd(key, members)

DoSrem == \E key \in Keys, members \in Args(Members, MaxPush) : Srem(key, members)

NextSet == DoSadd \/ DoSrem

SpecSet == InitFresh /\ [][NextSet]_vars

\* C8: sadd(k, m1, ..., mn) returns the number of distinct members among
\* m1..mn that were not in the set before the call (given[k] as the call found
\* it is what earlier sadd calls put there and no srem took out): sadd(k, "x",
\* "x", "y") on an empty set returns 2, a following sadd(k, "x") returns 0.
C8_SaddReturnsNewMemberCount ==
    cop.name = "sadd" =>
        /\ ~cop.raised
        /\ cop.ret = Cardinality(Range(cop.args) \ cop.had)

----------------------------------------------------------------------------
(* The codec: serialize / deserialize with msgpack, compress_value and      *)
(* decompress_value.  A byte string is a sequence of numbers 0..255; the    *)
(* values given to the codec are Python bytes objects.                      *)

\* msgpack.packb(value, use_bin_type=True) of a bytes object: the bin 8 format
\* (0xc4, length) up to 255 bytes, bin 16 (0xc5, length high, length low) up to
\* 65535, then the bytes.
Serialize(value) ==
    IF Len(value) < 256 THEN <<196, Len(value)>> \o value
    ELSE <<197, Len(value) \div 256, Len(value) % 256>> \o value

\* msgpack.unpackb(data, raw=False): the object the first byte announces is
\* read; bytes left over after it raise ExtraData, too few raise as well.
\* A first byte 0x00..0x7f is a positive fixint, the number itself.
Deserialize(data) ==
    IF data = <<>> THEN [raised |-> TRUE, value |-> <<>>]
    ELSE IF data[1] = 196 /\ Len(data) >= 2 /\ Len(data) = 2 + data[2]
    THEN [raised |-> FALSE, value |-> SubSeq(data, 3, Len(data))]
    ELSE IF data[1] = 197 /\ Len(data) >= 3 /\ Len(data) = 3 + 256 * data[2] + data[3]
    THEN [raised |-> FALSE, value |-> SubSeq(data, 4, Len(data))]
    ELSE IF data[1] < 128 /\ Len(data) = 1
    THEN [raised |-> FALSE, value |-> data[1]]
    ELSE [raised |-> TRUE, value |-> <<>>]

\* The two bytes a zlib stream starts with (deflate.c, deflate()): CMF is
\* 0x78 (deflate, 32K window), FLG carries the level class in its top two
\* bits (0 for level 0..1, 1 for 2..5, 2 for 6, 3 for 7..9) and fills the rest
\* so that CMF * 256 + FLG is a multiple of 31.
ZlibHeader(level) ==
    LET flevel == IF level < 2 THEN 0 ELSE IF level < 6 THEN 1
                  ELSE IF level = 6 THEN 2 ELSE 3
        h == 120 * 256 + flevel * 64
        full == h + (31 - (h % 31))
    IN <<full \div 256, full % 256>>

\* zlib.compress(data, level): the header, then the deflate stream.  The
\* stream is modelled by the data itself (an encoding that ZlibDecompress
\* inverts); its real bytes play no part in what the codec tests.
ZlibCompress(data, level) == ZlibHeader(level) \o data

\* zlib.decompress(data): a stream whose header is well formed (method 8, a
\* multiple of 31) is inflated, whatever level its header names; anything
\* else raises zlib.error.
ZlibDecompress(data) ==
    IF /\ Len(data) >= 2
       /\ data[1] = 120
       /\ (data[1] * 256 + data[2]) % 31 = 0
    THEN [raised |-> FALSE, value |-> SubSeq(data, 3, Len(data))]
    ELSE [raised |-> TRUE, value |-> <<>>]

\* bytes.startswith
StartsWith(data, prefix) ==
    Len(data) >= Len(prefix) /\ SubSeq(data, 1, Len(prefix)) = prefix

\* b'x\x9c', the marker decompress_value tests
ZlibMarker == <<120, 156>>

\* compress_value
CompressValue(value) ==
    LET serialized == Serialize(value)
    IN IF Len(serialized) > CompressThreshold
       THEN ZlibCompress(serialized, CompressLevel)
       ELSE serialized

\* decompress_value: any exception makes it return its argument.
DecompressValue(value) ==
    LET z == IF StartsWith(value, ZlibMarker)
             THEN ZlibDecompress(value)
             ELSE [raised |-> FALSE, value |-> value]
        d == IF z.raised THEN z ELSE Deserialize(z.value)
    IN IF d.raised THEN value ELSE d.value

Bytes(n, b) == [i \in 1..n |-> b]

\* The bytes objects of the model: short ones, and ones whose serialized size
\* (3 bytes more than their length) lies around the threshold.
CodecLengths ==
    (0..MaxSlack) \cup ((CompressThreshold - 3 - MaxSlack)..(CompressThreshold - 3 + MaxSlack))

CodecValues == {Bytes(n, b) : n \in CodecLengths, b \in {0, 120, 255}}

InitCodec ==
    /\ InitWith(<<>>)
    /\ IdleThreads
    /\ cval \in CodecValues
    /\ cbytes = <<>>
    /\ cout = <<>>
    /\ cpc = "start"

DoCompress ==
    /\ cpc = "start"
    /\ cbytes' = CompressValue(cval)
    /\ cpc' = "compressed"
    /\ UNCHANGED <<storeVars, obsVars, collVars, concVars, indexVars, cval, cout>>

DoDecompress ==
    /\ cpc = "compressed"
    /\ cout' = DecompressValue(cbytes)
    /\ cpc' = "decompressed"
    /\ UNCHANGED <<storeVars, obsVars, collVars, concVars, indexVars, cval, cbytes>>

NextCodec == DoCompress \/ DoDecompress

SpecCodec == InitCodec /\ [][NextCodec]_vars

\* C9: for every value whose serialized size exceeds the compression
\* threshold, decompress_value(compress_value(v)) returns v.
C9_CompressRoundTrip ==
    (cpc = "decompressed" /\ Len(Serialize(cval)) > CompressThreshold) => cout = cval

----------------------------------------------------------------------------
(* SpecConc: threads.  Each action is one statement of set, get,            *)
(* _flush_write_buffer, _update_hot_keys or _remove_expired_key, run by one *)
(* thread; a thread waits where the lock it asks for is held by another.    *)

\* The threads call set without a ttl.
ConcTTLs == {0}

\* Thread t calls set and get on this key only.
KeyOf(t) == IF t = "t1" THEN "a" ELSE "b"

\* _get_lock(key): self._locks[xxh64(key)], one RLock per key.
LockOf(key) == key

At(t, label) == th[t].pc = label

Goto(t, label) == th' = [th EXCEPT ![t].pc = label]

\* the locals a returning call leaves behind
Returned(r, name, ret) ==
    [r EXCEPT !.pc = "idle", !.name = "", !.key = "", !.value = "", !.ttl = 0,
              !.cur = <<>>, !.idx = 0, !.hits = 0, !.val = "", !.args = <<>>,
              !.expired_keys = <<>>, !.late = {},
              !.last = name, !.ret = ret]

StoreUnchanged == UNCHANGED <<storage, ttl, value_cache, hot_keys, write_buffer, now>>

OthersButIndexes == UNCHANGED <<obsVars, collVars, codecVars>>

Others == OthersButIndexes /\ UNCHANGED indexVars

\* a thread calls set(key, value, ttl), ttl drawn from ttls
CallSetWith(t, ttls) ==
    \E value \in Values, tt \in ttls :
        /\ At(t, "idle")
        /\ th[t].calls < MaxThreadOps
        /\ th' = [th EXCEPT ![t].pc = "s_lock", ![t].name = "set",
                            ![t].key = KeyOf(t), ![t].value = value, ![t].ttl = tt,
                            ![t].calls = @ + 1, ![t].last = "", ![t].ret = ""]
        /\ StoreUnchanged /\ UNCHANGED <<locks, global_lock>> /\ Others

CallSet(t) == CallSetWith(t, ConcTTLs)

\* a thread calls get(key)
CallGet(t) ==
    /\ At(t, "idle")
    /\ th[t].calls < MaxThreadOps
    /\ th' = [th EXCEPT ![t].pc = "g_cache", ![t].name = "get",
                        ![t].key = KeyOf(t), ![t].calls = @ + 1,
                        ![t].last = "", ![t].ret = ""]
    /\ StoreUnchanged /\ UNCHANGED <<locks, global_lock>> /\ Others

\* set: with self._get_lock(key):
SetLock(t) ==
    /\ At(t, "s_lock")
    /\ locks[LockOf(th[t].key)] = Free
    /\ locks' = [locks EXCEPT ![LockOf(th[t].key)] = t]
    /\ Goto(t, "s_append")
    /\ StoreUnchanged /\ UNCHANGED global_lock /\ Others

\* set: self._write_buffer.append(('set', key, value, ttl))
SetAppend(t) ==
    /\ At(t, "s_append")
    /\ write_buffer' = DequeAppend(write_buffer,
                                   <<"set", th[t].key, th[t].value, th[t].ttl>>)
    /\ Goto(t, "s_check")
    /\ UNCHANGED <<storage, ttl, value_cache, hot_keys, now, locks, global_lock>>
    /\ Others

\* set: if len(self._write_buffer) >= self._write_buffer.maxlen:
SetCheck(t) ==
    /\ At(t, "s_check")
    /\ Goto(t, IF Len(write_buffer) >= maxlen THEN "f_lock" ELSE "h_scan")
    /\ StoreUnchanged /\ UNCHANGED <<locks, global_lock>> /\ Others

\* _flush_write_buffer: with self._global_lock:
FlushLock(t) ==
    /\ At(t, "f_lock")
    /\ global_lock = Free
    /\ global_lock' = t
    /\ Goto(t, "f_loop")
    /\ StoreUnchanged /\ UNCHANGED locks /\ Others

\* _flush_write_buffer: while self._write_buffer: op, *args = popleft()
\* (an empty buffer ends the loop and releases the global lock)
FlushPop(t) ==
    /\ At(t, "f_loop")
    /\ IF write_buffer = <<>>
       THEN /\ global_lock' = Free
            /\ Goto(t, "h_scan")
            /\ UNCHANGED write_buffer
       ELSE /\ write_buffer' = Tail(write_buffer)
            /\ th' = [th EXCEPT ![t].cur = Head(write_buffer),
                                ![t].pc = IF Head(write_buffer)[1] = "set"
                                          THEN "f_store" ELSE "f_loop"]
            /\ UNCHANGED global_lock
    /\ UNCHANGED <<storage, ttl, value_cache, hot_keys, now, locks>>
    /\ Others

\* _flush_write_buffer: self._storage[key] = value; if ttl:
FlushStore(t) ==
    /\ At(t, "f_store")
    /\ storage' = Put(storage, th[t].cur[2], th[t].cur[3])
    /\ Goto(t, IF Truthy(th[t].cur[4]) THEN "f_ttl" ELSE "f_loop")
    /\ UNCHANGED <<ttl, value_cache, hot_keys, write_buffer, now, locks, global_lock>>
    /\ Others

\* _flush_write_buffer: self._ttl[key] = time.time() + ttl
FlushTtl(t) ==
    /\ At(t, "f_ttl")
    /\ ttl' = Put(ttl, th[t].cur[2], now + th[t].cur[4])
    /\ Goto(t, "f_loop")
    /\ UNCHANGED <<storage, value_cache, hot_keys, write_buffer, now, locks, global_lock>>
    /\ Others

\* where _update_hot_keys returns to
AfterHot(t) == IF th[t].name = "set" THEN "s_store" ELSE "g_hot"

\* _update_hot_keys: the loop over enumerate(self._hot_keys), up to the first
\* entry of the key (its index and hits are kept) or the end of the list.
HotScan(t) ==
    /\ At(t, "h_scan")
    /\ LET found == {i \in 1..Len(hot_keys) : hot_keys[i][1] = th[t].key}
       IN IF found = {}
          THEN Goto(t, "h_new")
          ELSE LET i == CHOOSE i \in found : \A j \in found : i <= j
               IN th' = [th EXCEPT ![t].idx = i, ![t].hits = hot_keys[i][2],
                                   ![t].pc = "h_pop"]
    /\ StoreUnchanged /\ UNCHANGED <<locks, global_lock>> /\ Others

\* _update_hot_keys: self._hot_keys.add((key, 1))
HotNew(t) ==
    /\ At(t, "h_new")
    /\ hot_keys' = SortedListAdd(hot_keys, <<th[t].key, 1>>)
    /\ Goto(t, AfterHot(t))
    /\ UNCHANGED <<storage, ttl, value_cache, write_buffer, now, locks, global_lock>>
    /\ Others

\* _update_hot_keys: self._hot_keys.pop(idx); an index past the end raises
\* IndexError, which leaves the with block of set or get (the key's lock is
\* released) and ends the call.
HotPop(t) ==
    /\ At(t, "h_pop")
    /\ IF th[t].idx <= Len(hot_keys)
       THEN /\ hot_keys' = RemoveAt(hot_keys, th[t].idx)
            /\ Goto(t, "h_add")
            /\ UNCHANGED locks
       ELSE /\ th' = [th EXCEPT ![t] = Returned(@, "raised", "")]
            /\ locks' = [locks EXCEPT ![LockOf(th[t].key)] = Free]
            /\ UNCHANGED hot_keys
    /\ UNCHANGED <<storage, ttl, value_cache, write_buffer, now, global_lock>>
    /\ Others

\* _update_hot_keys: self._hot_keys.add((key, hits + 1))
HotAdd(t) ==
    /\ At(t, "h_add")
    /\ hot_keys' = SortedListAdd(hot_keys, <<th[t].key, th[t].hits + 1>>)
    /\ Goto(t, AfterHot(t))
    /\ UNCHANGED <<storage, ttl, value_cache, write_buffer, now, locks, global_lock>>
    /\ Others

\* set: self._storage[key] = value; if ttl:
SetStore(t) ==
    /\ At(t, "s_store")
    /\ storage' = Put(storage, th[t].key, th[t].value)
    /\ Goto(t, IF Truthy(th[t].ttl) THEN "s_ttl" ELSE "s_ret")
    /\ UNCHANGED <<ttl, value_cache, hot_keys, write_buffer, now, locks, global_lock>>
    /\ Others

\* set: self._ttl[key] = time.time() + ttl
SetTtl(t) ==
    /\ At(t, "s_ttl")
    /\ ttl' = Put(ttl, th[t].key, now + th[t].ttl)
    /\ Goto(t, "s_ret")
    /\ UNCHANGED <<storage, value_cache, hot_keys, write_buffer, now, locks, global_lock>>
    /\ Others

\* A set on key has returned: every sweep that still has the key on its list
\* of keys to remove made that list before.
NoteSet(r, key) ==
    IF key \in Range(r.expired_keys) THEN [r EXCEPT !.late = @ \cup {key}] ELSE r

\* set: return True (the with block releases the key's lock)
SetReturn(t) ==
    /\ At(t, "s_ret")
    /\ locks' = [locks EXCEPT ![LockOf(th[t].key)] = Free]
    /\ th' = [s \in Threads |->
                IF s = t THEN [Returned(th[t], "set", "True") EXCEPT !.lsv = th[t].value]
                ELSE NoteSet(th[s], th[t].key)]
    /\ StoreUnchanged /\ UNCHANGED global_lock /\ Others

\* get: if key in self._value_cache: return self._value_cache[key]
GetCache(t) ==
    /\ At(t, "g_cache")
    /\ IF th[t].key \in DOMAIN value_cache
       THEN th' = [th EXCEPT ![t] = Returned(@, "get", value_cache[th[t].key])]
       ELSE Goto(t, "g_lock")
    /\ StoreUnchanged /\ UNCHANGED <<locks, global_lock>> /\ Others

\* get: with self._get_lock(key):
GetLock(t) ==
    /\ At(t, "g_lock")
    /\ locks[LockOf(th[t].key)] = Free
    /\ locks' = [locks EXCEPT ![LockOf(th[t].key)] = t]
    /\ Goto(t, "g_ttl")
    /\ StoreUnchanged /\ UNCHANGED global_lock /\ Others

\* get: if key in self._ttl and time.time() > self._ttl[key]:
\*          self._remove_expired_key(key); return default
GetTtl(t) ==
    /\ At(t, "g_ttl")
    /\ IF th[t].key \in DOMAIN ttl /\ GetExpired(now, ttl[th[t].key])
       THEN LET m == RemoveExpiredKey(Mem, th[t].key)
            IN /\ storage' = m.storage
               /\ ttl' = m.ttl
               /\ value_cache' = m.value_cache
               /\ RemoveIndexed(<<th[t].key>>)
               /\ locks' = [locks EXCEPT ![LockOf(th[t].key)] = Free]
               /\ th' = [th EXCEPT ![t] = Returned(@, "get", None)]
       ELSE /\ Goto(t, "g_read")
            /\ UNCHANGED <<storage, ttl, value_cache, locks, indexVars>>
    /\ UNCHANGED <<hot_keys, write_buffer, now, global_lock>>
    /\ OthersButIndexes

\* get: value = self._storage.get(key, default)
GetRead(t) ==
    /\ At(t, "g_read")
    /\ th' = [th EXCEPT ![t].val = DictGet(storage, th[t].key, None),
                        ![t].pc = "h_scan"]
    /\ StoreUnchanged /\ UNCHANGED <<locks, global_lock>> /\ Others

\* get: if self._is_hot_key(key): self._value_cache[key] = value; return value
GetHot(t) ==
    /\ At(t, "g_hot")
    /\ value_cache' = IF IsHotKey(hot_keys, th[t].key)
                      THEN Put(value_cache, th[t].key, th[t].val)
                      ELSE value_cache
    /\ locks' = [locks EXCEPT ![LockOf(th[t].key)] = Free]
    /\ th' = [th EXCEPT ![t] = Returned(@, "get", th[t].val)]
    /\ UNCHANGED <<storage, ttl, hot_keys, write_buffer, now, global_lock>>
    /\ Others

Step(t) ==
    \/ CallSet(t) \/ CallGet(t)
    \/ SetLock(t) \/ SetAppend(t) \/ SetCheck(t)
    \/ FlushLock(t) \/ FlushPop(t) \/ FlushStore(t)
    \/ HotScan(t) \/ HotNew(t) \/ HotPop(t) \/ HotAdd(t)
    \/ SetStore(t) \/ SetReturn(t)
    \/ GetCache(t) \/ GetLock(t) \/ GetTtl(t) \/ GetRead(t) \/ GetHot(t)

NextConc == \E t \in Threads : Step(t)

SpecConc == InitFresh /\ [][NextConc]_vars

\* C6: threads set disjoint keys; once a thread's set(k, v) has returned, every
\* get(k) of that thread before its next set on k returns v.
C6_NoLostUpdate ==
    \A t \in Threads :
        (th[t].pc = "idle" /\ th[t].last = "get" /\ th[t].lsv # "")
        => th[t].ret = th[t].lsv

----------------------------------------------------------------------------
(* SpecSweep: the threads of SpecConc with TTLs, the clock and the expiry   *)
(* sweep.  _remove_expired_key is one step for each key.                    *)

\* a thread calls _cleanup_expired()
CallSweep(t) ==
    /\ At(t, "idle")
    /\ th[t].calls < MaxThreadOps
    /\ th' = [th EXCEPT ![t].pc = "c_scan", ![t].name = "sweep",
                        ![t].calls = @ + 1, ![t].last = "", ![t].ret = ""]
    /\ StoreUnchanged /\ UNCHANGED <<locks, global_lock>> /\ Others

\* _cleanup_expired: current_time = time.time(), and the scan of
\* self._ttl.items() that fills expired_keys; "if expired_keys:" ends the
\* call when the list is empty.
SweepScan(t) ==
    /\ At(t, "c_scan")
    /\ LET expired_keys == ExpiredKeys(SortedKeys(ttl), ttl, now)
       IN th' = [th EXCEPT ![t] = IF expired_keys = <<>>
                                  THEN Returned(@, "sweep", None)
                                  ELSE [@ EXCEPT !.expired_keys = expired_keys,
                                                 !.pc = "c_lock"]]
    /\ StoreUnchanged /\ UNCHANGED <<locks, global_lock>> /\ Others

\* _cleanup_expired: with self._global_lock:
SweepLock(t) ==
    /\ At(t, "c_lock")
    /\ global_lock = Free
    /\ global_lock' = t
    /\ Goto(t, "c_remove")
    /\ StoreUnchanged /\ UNCHANGED locks /\ Others

\* the sweep with the key's lock taken around each removal
SweepKeyLocks_PerKey(key) == {LockOf(key)}

\* The per-key locks the sweep takes to remove a key: none, the loop runs
\* under the global lock alone.
SweepKeyLocks(key) == {}

\* _cleanup_expired: for key in expired_keys: self._remove_expired_key(key)
\* (the end of the list releases the global lock and ends the call)
SweepRemove(t) ==
    /\ At(t, "c_remove")
    /\ th[t].expired_keys # <<>> =>
           \A l \in SweepKeyLocks(Head(th[t].expired_keys)) : locks[l] \in {Free, t}
    /\ IF th[t].expired_keys = <<>>
       THEN /\ global_lock' = Free
            /\ th' = [th EXCEPT ![t] = Returned(@, "sweep", None)]
            /\ UNCHANGED <<storage, ttl, value_cache, indexVars>>
       ELSE LET key == Head(th[t].expired_keys)
                m == RemoveExpiredKey(Mem, key)
            IN /\ storage' = m.storage
               /\ ttl' = m.ttl
               /\ value_cache' = m.value_cache
               /\ RemoveIndexed(<<key>>)
               /\ th' = [th EXCEPT ![t].expired_keys = Tail(@),
                                   ![t].swept = IF key \in th[t].late THEN key ELSE @]
               /\ UNCHANGED global_lock
    /\ UNCHANGED <<hot_keys, write_buffer, now, locks>>
    /\ OthersButIndexes

\* time passes between two statements
ClockTick ==
    /\ now < MaxTime
    /\ now' = now + 1
    /\ UNCHANGED <<storage, ttl, value_cache, hot_keys, write_buffer, concVars>>
    /\ Others

\* t1 is a client of key "a", t2 runs the sweep.
Client(t) == t = "t1"

StepSweep(t) ==
    \/ (Client(t) /\ CallSetWith(t, TTLs))
    \/ (Client(t) /\ CallGet(t))
    \/ (~Client(t) /\ CallSweep(t))
    \/ SetLock(t) \/ SetAppend(t) \/ SetCheck(t)
    \/ FlushLock(t) \/ FlushPop(t) \/ FlushStore(t) \/ FlushTtl(t)
    \/ HotScan(t) \/ HotNew(t) \/ HotPop(t) \/ HotAdd(t)
    \/ SetStore(t) \/ SetTtl(t) \/ SetReturn(t)
    \/ GetCache(t) \/ GetLock(t) \/ GetTtl(t) \/ GetRead(t) \/ GetHot(t)
    \/ SweepScan(t) \/ SweepLock(t) \/ SweepRemove(t)

NextSweep == ClockTick \/ \E t \in Threads : StepSweep(t)

SpecSweep == InitFresh /\ [][NextSweep]_vars

Quiescent == \A t \in Threads : th[t].pc = "idle"

\* C11: in every state where no call is in progress, every key with a TTL
\* record is in the store.
C11_TtlRecordHasEntry ==
    Quiescent => DOMAIN ttl \subseteq DOMAIN storage

\* a sweep that holds the global lock and is removing the keys on its list
SweepRemoving(s) == th[s].pc = "c_remove" /\ global_lock = s

\* C12: while a sweep holds the global lock and removes keys, no step of a set
\* running in another thread changes _storage or _ttl; and no sweep removes a
\* key on which a set returned after the sweep had listed the key as expired.
C12_NoSetDuringSweep ==
    /\ [](\A s \in Threads : th[s].swept = "")
    /\ [][\A s \in Threads : SweepRemoving(s) =>
             \A t \in Threads \ {s} :
                 (th[t].name = "set" /\ th'[t] # th[t])
                 => (storage' = storage /\ ttl' = ttl)]_vars

----------------------------------------------------------------------------
(* Claims about locking and the shared structures, checked under SpecConc. *)

\* the step is one of thread t
StepOf(t) == th'[t] # th[t]

\* C13: every step that writes or removes the _storage or _ttl state of a key
\* k, the sweep's steps apart, is made by a thread that holds the lock of k;
\* this includes the writes the flush makes when it replays the buffer.
C13_WritesHoldKeyLock ==
    [][\A t \in Threads, k \in Keys :
          (/\ StepOf(t)
           /\ th[t].name # "sweep"
           /\ ~(SameAt(storage, storage', k) /\ SameAt(ttl, ttl', k)))
          => locks[LockOf(k)] = t]_vars

\* the per-key locks thread t holds
HeldBy(t) == {k \in Keys : locks[LockOf(k)] = t}

\* C14: no thread acquires the global lock while it holds a per-key lock.
C14_GlobalLockTakenWithoutKeyLock ==
    [][\A t \in Threads :
          (global_lock # t /\ global_lock' = t) => HeldBy(t) = {}]_vars

\* s continues with x appended: nothing of s is lost.
IsAppend(s, x) == Len(x) = Len(s) + 1 /\ SubSeq(x, 1, Len(s)) = s

\* C16: an operation leaves the write buffer only by being popped by the
\* flush, which holds the global lock and replays it; an append keeps every
\* operation that was in the buffer.
C16_BufferedOpLeavesOnlyByReplay ==
    [][\/ write_buffer' = write_buffer
       \/ IsAppend(write_buffer, write_buffer')
       \/ /\ write_buffer # <<>>
          /\ write_buffer' = Tail(write_buffer)
          /\ \E t \in Threads : /\ global_lock = t
                                /\ th[t].pc = "f_loop"
                                /\ th'[t].cur = Head(write_buffer)]_vars

\* the positions of key's entries in the ranking
Entries(hk, key) == {i \in 1..Len(hk) : hk[i][1] = key}

\* C19: the ranking holds at most one entry for each key in every state, and
\* no step of a call on one key takes an entry of another key out of it.
C19_OneRankingEntryPerKey ==
    /\ [](\A k \in Keys : Cardinality(Entries(hot_keys, k)) <= 1)
    /\ [][\A t \in Threads, k \in Keys :
             (StepOf(t) /\ th[t].key # k)
             => Cardinality(Entries(hot_keys', k)) >= Cardinality(Entries(hot_keys, k))]_vars

----------------------------------------------------------------------------
(* Claims about the flush and the two expiry tests, checked under Spec. *)

\* the step is a call of set
SetStep == op'.name = "set" /\ nops' = nops + 1

\* C17: with one client, a set and the flush it runs leave alone what direct
\* application had established: a key that is not in the store when set is
\* called (other than the key being set) is not in _storage or _ttl when it
\* returns, and the expiry time of a key that is live when set is called is
\* the same when it returns, unless it is the key being set and the set
\* gives a ttl, which moves it to now + ttl.
C17_FlushReplaysNothingNew ==
    [][SetStep =>
          \A k \in Keys :
              /\ (k # op'.key /\ k \notin DOMAIN storage)
                 => (k \notin DOMAIN storage' /\ k \notin DOMAIN ttl')
              /\ (Live(k) /\ k \in DOMAIN ttl)
                 => /\ k \in DOMAIN ttl'
                    /\ \/ ttl'[k] = ttl[k]
                       \/ (k = op'.key /\ Truthy(op'.ttl) /\ ttl'[k] = now + op'.ttl)]_vars

\* C18: the sweep run at time T removes a key with a TTL record exactly when
\* a get of it at T that misses the cache would find it expired; this covers
\* T equal to the key's expiry time.
C18_SweepAndGetAgreeOnExpiry ==
    op.name = "cleanup" =>
        \A k \in DOMAIN pre.ttl :
            (k \notin DOMAIN ttl) <=> GetExpired(now, pre.ttl[k])

----------------------------------------------------------------------------
(* SpecIndex: one client calling set / get / _cleanup_expired, with a       *)
(* caller that puts stored keys into a secondary index and searches it.     *)

IndexNames == {"by_value"}

IndexValues == {"x", "y"}

\* xxhash.xxh64(str(value).encode()).intdigest(): an integer, one for each of
\* the values used here, and never equal to a key, which is a str.
XxhDigest(value) == IF value = "x" THEN "xxh64(x)" ELSE "xxh64(y)"

\* The caller indexes a stored key under a value:
\*     _indexes[name][hash(value)] = key;  _reverse_indexes[key].add(name)
IndexPut(name, value, key) ==
    /\ key \in DOMAIN storage
    /\ indexes' = Put(indexes, name,
                      Put(DictGet(indexes, name, EmptyDict), XxhDigest(value), key))
    /\ reverse_indexes' = Put(reverse_indexes, key,
                              DictGet(reverse_indexes, key, {}) \cup {name})
    /\ UNCHANGED <<searched, storeVars, obsVars, collVars, codecVars, concVars>>

\* search_by_index: the values of the index between bisect_left and
\* bisect_right of the value's hash, that is the key stored under that hash
\* if there is one.
SearchByIndex(ix, index_name, value) ==
    LET index == DictGet(ix, index_name, EmptyDict)
        value_hash == XxhDigest(value)
    IN IF value_hash \in DOMAIN index THEN {index[value_hash]} ELSE {}

\* search_by_index(index_name, value); self._indexes[index_name] creates the
\* index when there is none of that name.
SearchCall(index_name, value) ==
    /\ searched' = Search(index_name, value, SearchByIndex(indexes, index_name, value))
    /\ indexes' = Put(indexes, index_name, DictGet(indexes, index_name, EmptyDict))
    /\ UNCHANGED <<reverse_indexes, storeVars, obsVars, collVars, codecVars, concVars>>

DoIndexPut ==
    \E name \in IndexNames, value \in IndexValues, key \in Keys : IndexPut(name, value, key)

DoSearch == \E name \in IndexNames, value \in IndexValues : SearchCall(name, value)

\* the client sets keys that expire
DoSetExpiring == \E key \in Keys : Set(key, "v1", 1)

NextIndex == DoSetExpiring \/ DoGet \/ Cleanup \/ Tick \/ DoIndexPut \/ DoSearch

SpecIndex == InitFresh /\ [][NextIndex]_vars

\* C20: a key leaves the store only by expiry here, so a search never returns
\* a key that is not in the store: once _remove_expired_key has removed a
\* key, search_by_index(name, value) does not return it.
C20_SearchReturnsNoExpiredKey ==
    [][searched' # searched => searched'.keys \subseteq DOMAIN storage]_vars

----------------------------------------------------------------------------
(* SpecLive: two threads calling set, get, _cleanup_expired, lpush, rpush,  *)
(* sadd and srem on any key, statement by statement, each thread scheduled  *)
(* again and again while it can take a step.                                *)

\* A thread makes at most MaxLiveOps calls.
MaxLiveOps == 1

\* The store one time unit after maxlen - 1 calls of set("a", "v1", ttl=1)
\* made at time 0: the write buffer is one entry short of its capacity and the
\* key has reached its expiry time.
InitLive ==
    /\ storage = Put(EmptyDict, "a", "v1")
    /\ ttl = Put(EmptyDict, "a", 1)
    /\ value_cache = EmptyDict
    /\ hot_keys = <<<<"a", maxlen - 1>>>>
    /\ write_buffer = [i \in 1..(maxlen - 1) |-> <<"set", "a", "v1", 1>>]
    /\ now = 1
    /\ NothingCalled
    /\ IdleCodec
    /\ IdleThreads

LiveCalls(t) == th[t].calls < MaxLiveOps

\* get and the collection calls are made on the key whose TTL record the
\* store holds, so that they share a lock with set("a") and with each other;
\* set is called on either key, so that two sets that flush hold different
\* locks.
SharedKey == "a"

\* a thread calls set(key, "v1", ttl=1), get("a") or _cleanup_expired()
LiveCall(t) ==
    /\ At(t, "idle")
    /\ LiveCalls(t)
    /\ \/ \E key \in Keys :
              th' = [th EXCEPT ![t].pc = "s_lock", ![t].name = "set", ![t].key = key,
                               ![t].value = "v1", ![t].ttl = 1, ![t].calls = @ + 1,
                               ![t].last = "", ![t].ret = ""]
       \/ th' = [th EXCEPT ![t].pc = "g_cache", ![t].name = "get",
                           ![t].key = SharedKey,
                           ![t].calls = @ + 1, ![t].last = "", ![t].ret = ""]
       \/ th' = [th EXCEPT ![t].pc = "c_scan", ![t].name = "sweep",
                           ![t].calls = @ + 1, ![t].last = "", ![t].ret = ""]
    /\ StoreUnchanged /\ UNCHANGED <<locks, global_lock>> /\ Others

\* a thread calls lpush / rpush ("a", 1) or sadd / srem ("a", "x")
CollectionCall(t) ==
    /\ At(t, "idle")
    /\ LiveCalls(t)
    /\ \E name \in {"lpush", "rpush", "sadd", "srem"} :
           th' = [th EXCEPT ![t].pc = "k_lock", ![t].name = name, ![t].key = SharedKey,
                            ![t].args = IF name \in {"lpush", "rpush"}
                                        THEN <<1>> ELSE <<"x">>,
                            ![t].calls = @ + 1, ![t].last = "", ![t].ret = ""]
    /\ StoreUnchanged /\ UNCHANGED <<locks, global_lock>> /\ Others

\* lpush / rpush / sadd / srem: with self._get_lock(key):
CollectionLock(t) ==
    /\ At(t, "k_lock")
    /\ locks[LockOf(th[t].key)] = Free
    /\ locks' = [locks EXCEPT ![LockOf(th[t].key)] = t]
    /\ Goto(t, "k_body")
    /\ StoreUnchanged /\ UNCHANGED global_lock /\ Others

\* what the body of a collection call leaves unchanged
BodyFrame == StoreUnchanged /\ UNCHANGED <<global_lock, obsVars, cop, given, codecVars, indexVars>>

\* lpush: the body of the with block, and its exit
LpushBody(t) ==
    /\ At(t, "k_body") /\ th[t].name = "lpush"
    /\ LET dq == ExtendLeft(DictGet(lists, th[t].key, <<>>), Reversed(th[t].args))
       IN /\ lists' = Put(lists, th[t].key, dq)
          /\ th' = [th EXCEPT ![t] = Returned(@, "lpush", ToString(Len(dq)))]
    /\ locks' = [locks EXCEPT ![LockOf(th[t].key)] = Free]
    /\ UNCHANGED sets /\ BodyFrame

\* rpush: the body of the with block, and its exit
RpushBody(t) ==
    /\ At(t, "k_body") /\ th[t].name = "rpush"
    /\ LET dq == Extend(DictGet(lists, th[t].key, <<>>), th[t].args)
       IN /\ lists' = Put(lists, th[t].key, dq)
          /\ th' = [th EXCEPT ![t] = Returned(@, "rpush", ToString(Len(dq)))]
    /\ locks' = [locks EXCEPT ![LockOf(th[t].key)] = Free]
    /\ UNCHANGED sets /\ BodyFrame

\* sadd: the body of the with block; it is left by return, or by the
\* exception an add raised, and either way the key's lock is released.
SaddBody(t) ==
    /\ At(t, "k_body") /\ th[t].name = "sadd"
    /\ LET old == DictGet(sets, th[t].key, NewOptimizedSet)
           r == AddEach(old, th[t].args)
       IN /\ sets' = Put(sets, th[t].key, r.set)
          /\ th' = [th EXCEPT ![t] =
                       IF r.raised THEN Returned(@, "raised", "")
                       ELSE Returned(@, "sadd", ToString(Len(r.set.data) - Len(old.data)))]
    /\ locks' = [locks EXCEPT ![LockOf(th[t].key)] = Free]
    /\ UNCHANGED lists /\ BodyFrame

\* srem: the body of the with block, left by return or by an exception
SremBody(t) ==
    /\ At(t, "k_body") /\ th[t].name = "srem"
    /\ LET old == DictGet(sets, th[t].key, NewOptimizedSet)
           r == RemoveEach(old, th[t].args)
       IN /\ sets' = Put(sets, th[t].key, r.set)
          /\ th' = [th EXCEPT ![t] =
                       IF r.raised THEN Returned(@, "raised", "")
                       ELSE Returned(@, "srem", ToString(Len(old.data) - Len(r.set.data)))]
    /\ locks' = [locks EXCEPT ![LockOf(th[t].key)] = Free]
    /\ UNCHANGED lists /\ BodyFrame

StepLive(t) ==
    \/ LiveCall(t) \/ CollectionCall(t)
    \/ SetLock(t) \/ SetAppend(t) \/ SetCheck(t)
    \/ FlushLock(t) \/ FlushPop(t) \/ FlushStore(t) \/ FlushTtl(t)
    \/ HotScan(t) \/ HotNew(t) \/ HotPop(t) \/ HotAdd(t)
    \/ SetStore(t) \/ SetTtl(t) \/ SetReturn(t)
    \/ GetCache(t) \/ GetLock(t) \/ GetTtl(t) \/ GetRead(t) \/ GetHot(t)
    \/ SweepScan(t) \/ SweepLock(t) \/ SweepRemove(t)
    \/ CollectionLock(t)
    \/ LpushBody(t) \/ RpushBody(t) \/ SaddBody(t) \/ SremBody(t)

NextLive == \E t \in Threads : StepLive(t)

\* Fair scheduling: a thread that can take a step is not passed over for ever.
SpecLive == InitLive /\ [][NextLive]_vars /\ \A t \in Threads : WF_vars(StepLive(t))

\* C15: no thread holds the locks of two different keys at once, and every
\* call that has started ends (by return or by an exception) with the thread
\* holding no lock.
C15_NoDeadlock ==
    /\ [](\A t \in Threads : Cardinality({LockOf(k) : k \in HeldBy(t)}) <= 1)
    /\ \A t \in Threads :
           (th[t].pc # "idle")
           ~> (th[t].pc = "idle" /\ HeldBy(t) = {} /\ global_lock # t)

\* A set that holds its key's lock waits for the global lock, which a sweep
\* in the other thread holds.
C15_Witness ==
    \E t \in Threads, s \in Threads :
        /\ th[t].pc = "f_lock"
        /\ HeldBy(t) # {}
        /\ th[s].name = "sweep"
        /\ global_lock = s

====
